---- MODULE Spec2Model ----
(***************************************************************************)
(* Model of sage.manifolds.differentiable.scalarfield_algebra:             *)
(* the class DiffScalarFieldAlgebra, its constructor and its four methods  *)
(* _coerce_map_from_, _repr_, _latex_ and __reduce__.                      *)
(*                                                                         *)
(* The state is a heap of parent objects (the symbolic ring SR, a few      *)
(* other parents, and the algebras constructed so far), the domains'       *)
(* subset structure and differentiability degree, and the record of the    *)
(* last call made.  Every method is an operator that takes the heap and    *)
(* returns its value, the exception it raised (if any) and the heap it     *)
(* leaves behind.                                                          *)
(***************************************************************************)
EXTENDS Integers, Sequences, FiniteSets, TLC

VARIABLES
    subsets,   \* subsets[d]: the domains known to be subsets of domain d
    manifold_degree,  \* the differentiability degree of the manifold the domains live on
    objects,   \* the heap: object id -> record of the object's class and attributes
    last       \* the last call: [op, self, other, ret, exc, consulted]

vars == <<subsets, manifold_degree, objects, last>>

(***************************************************************************)
(* Bounds                                                                  *)
(***************************************************************************)
MaxAlgebras == 2    \* number of algebras constructed after the first one, CM
MaxDegree == 2      \* largest finite differentiability degree

\* the domain objects, by the names the doctests give them: the manifold M
\* and the open subsets U and W
Domains == {"M", "U", "W"}

(***************************************************************************)
(* Collaborators: the domain objects                                        *)
(***************************************************************************)

\* sage.rings.infinity.infinity and the finite degrees
infinity == [inf |-> TRUE, n |-> 0]

Finite(k) == [inf |-> FALSE, n |-> k]

Degrees == {Finite(k) : k \in 1..MaxDegree} \cup {infinity}

\* reflexive, antisymmetric and transitive: what set inclusion is
IsReflexive(S) == \A d \in Domains : d \in S[d]

IsTransitive(S) == \A a, b, c \in Domains : (a \in S[b] /\ b \in S[c]) => a \in S[c]

IsAntisymmetric(S) == \A a, b \in Domains : (a \in S[b] /\ b \in S[a]) => a = b

SubsetStructures ==
    {S \in [Domains -> SUBSET Domains] :
        IsReflexive(S) /\ IsTransitive(S) /\ IsAntisymmetric(S)}

\* domain.is_subset(other)
is_subset(domain, other) == domain \in subsets[other]

\* domain.diff_degree()
diff_degree(domain) == manifold_degree

\* str(n) of a non-negative Python integer
Digit(n) == CASE n = 0 -> "0" [] n = 1 -> "1" [] n = 2 -> "2" [] n = 3 -> "3"
              [] n = 4 -> "4" [] n = 5 -> "5" [] n = 6 -> "6" [] n = 7 -> "7"
              [] n = 8 -> "8" [] n = 9 -> "9"

RECURSIVE str_int(_)
str_int(n) == IF n < 10 THEN Digit(n) ELSE str_int(n \div 10) \o Digit(n % 10)

\* str(domain)
domain_str(domain) == "2-dimensional differentiable manifold " \o domain

\* domain._latex_(): the symbol the domain was given at its creation
domain_latex(domain) == domain

\* str(degree): an integer prints its digits, infinity prints as +Infinity
degree_str(d) == IF d.inf THEN "+Infinity" ELSE str_int(d.n)

(***************************************************************************)
(* Objects, classes and calls                                               *)
(***************************************************************************)

\* the module-level name SR: the one symbolic ring object
SR == 1

\* the objects that exist once CM = M.scalar_field_algebra() is made:
\* SR, a second symbolic ring instance, the integer ring, a generic
\* (non-differentiable) scalar field algebra on M, and CM itself
InitialObjects ==
    << [cls |-> "SymbolicRing"],
       [cls |-> "SymbolicRing"],
       [cls |-> "IntegerRing"],
       [cls |-> "ScalarFieldAlgebra_with_category", _domain |-> "M"],
       [cls |-> "DiffScalarFieldAlgebra_with_category", _domain |-> "M"] >>

NoObject == 0

NoneValue == "None"

\* the direct base class of a class
Base(c) ==
    CASE c = "DiffScalarFieldAlgebra_with_category" -> "DiffScalarFieldAlgebra"
      [] c = "DiffScalarFieldAlgebra" -> "ScalarFieldAlgebra"
      [] c = "ScalarFieldAlgebra_with_category" -> "ScalarFieldAlgebra"
      [] c = "ScalarFieldAlgebra" -> "Parent"
      [] c = "SymbolicRing" -> "Parent"
      [] c = "IntegerRing" -> "Parent"
      [] OTHER -> "object"

RECURSIVE issubclass(_, _)
issubclass(c, k) ==
    IF c = k THEN TRUE
    ELSE IF c = "object" THEN FALSE
    ELSE issubclass(Base(c), k)

\* isinstance(obj, k) for the object with id obj
isinstance(heap, obj, k) == issubclass(heap[obj].cls, k)

hasattr(heap, obj, name) == name \in DOMAIN heap[obj]

\* the outcome of a call: a returned value, or an exception
\* (consulted: whether the call asked a domain for is_subset)
Return(v, heap) == [ret |-> v, exc |-> "", heap |-> heap, consulted |-> FALSE]

Raise(e, heap) == [ret |-> NoneValue, exc |-> e, heap |-> heap, consulted |-> FALSE]

Consulted(r) == [r EXCEPT !.consulted = TRUE]

\* the ids of the instances of DiffScalarFieldAlgebra on the heap
Algebras(heap) ==
    {o \in 1..Len(heap) : isinstance(heap, o, "DiffScalarFieldAlgebra")}

(***************************************************************************)
(* The class DiffScalarFieldAlgebra                                         *)
(***************************************************************************)

\* ScalarFieldAlgebra.__init__(self, domain): refuses what is no domain,
\* stores the domain, and leaves the object in its class-with-category
ScalarFieldAlgebra__init__(heap, self, domain) ==
    IF domain \in Domains
    THEN Return(NoneValue,
                [heap EXCEPT ![self] = [cls |-> heap[self].cls \o "_with_category",
                                        _domain |-> domain]])
    ELSE Raise("TypeError", heap)

\* DiffScalarFieldAlgebra.__init__(self, domain)
__init__(heap, self, domain) == ScalarFieldAlgebra__init__(heap, self, domain)

\* cls(*args): allocate an object of the class and initialise it
construct(heap, cls, args) ==
    IF Len(args) # 1 THEN Raise("TypeError", heap)
    ELSE LET new == Len(heap) + 1
             fresh == Append(heap, [cls |-> cls])
             r == IF cls = "DiffScalarFieldAlgebra"
                  THEN __init__(fresh, new, args[1])
                  ELSE ScalarFieldAlgebra__init__(fresh, new, args[1])
         IN  IF r.exc = "" THEN Return(new, r.heap) ELSE Raise(r.exc, heap)

(***************************************************************************)
(* Faulty variants of _coerce_map_from_.  Each is the method with one      *)
(* plausible slip; the theorems below are shown to tell them apart from    *)
(* the method as written.                                                  *)
(***************************************************************************)

\* the subset test the wrong way round
coerce_swapped(heap, self, other) ==
    IF other = SR
    THEN Return(TRUE, heap)
    ELSE IF isinstance(heap, other, "DiffScalarFieldAlgebra")
    THEN IF hasattr(heap, self, "_domain") /\ hasattr(heap, other, "_domain")
         THEN Consulted(Return(is_subset(heap[other]._domain, heap[self]._domain), heap))
         ELSE Raise("AttributeError", heap)
    ELSE Return(FALSE, heap)

\* the base-ring branch forgotten
coerce_no_base_ring(heap, self, other) ==
    IF isinstance(heap, other, "DiffScalarFieldAlgebra")
    THEN IF hasattr(heap, self, "_domain") /\ hasattr(heap, other, "_domain")
         THEN Consulted(Return(is_subset(heap[self]._domain, heap[other]._domain), heap))
         ELSE Raise("AttributeError", heap)
    ELSE Return(FALSE, heap)

\* the instance test against the generic base class
coerce_any_algebra(heap, self, other) ==
    IF other = SR
    THEN Return(TRUE, heap)
    ELSE IF isinstance(heap, other, "ScalarFieldAlgebra")
    THEN IF hasattr(heap, self, "_domain") /\ hasattr(heap, other, "_domain")
         THEN Consulted(Return(is_subset(heap[self]._domain, heap[other]._domain), heap))
         ELSE Raise("AttributeError", heap)
    ELSE Return(FALSE, heap)

\* no instance test at all: other._domain is read from whatever other is
coerce_unchecked(heap, self, other) ==
    IF other = SR
    THEN Return(TRUE, heap)
    ELSE IF hasattr(heap, self, "_domain") /\ hasattr(heap, other, "_domain")
    THEN Consulted(Return(is_subset(heap[self]._domain, heap[other]._domain), heap))
    ELSE Raise("AttributeError", heap)

\* the receiver takes over the argument's domain
coerce_rebinding(heap, self, other) ==
    IF other = SR
    THEN Return(TRUE, heap)
    ELSE IF isinstance(heap, other, "DiffScalarFieldAlgebra")
    THEN IF hasattr(heap, self, "_domain") /\ hasattr(heap, other, "_domain")
         THEN Consulted(Return(is_subset(heap[self]._domain, heap[other]._domain),
                               [heap EXCEPT ![self]._domain = heap[other]._domain]))
         ELSE Raise("AttributeError", heap)
    ELSE Return(FALSE, heap)

\* algebras told apart by identity: another algebra on the same domain is
\* taken for a different one
coerce_by_identity(heap, self, other) ==
    IF other = SR
    THEN Return(TRUE, heap)
    ELSE IF isinstance(heap, other, "DiffScalarFieldAlgebra")
    THEN IF hasattr(heap, self, "_domain") /\ hasattr(heap, other, "_domain")
         THEN Consulted(Return(
                  \/ other = self
                  \/ /\ heap[self]._domain # heap[other]._domain
                     /\ is_subset(heap[self]._domain, heap[other]._domain), heap))
         ELSE Raise("AttributeError", heap)
    ELSE Return(FALSE, heap)

\* proper subsets only
coerce_strict(heap, self, other) ==
    IF other = SR
    THEN Return(TRUE, heap)
    ELSE IF isinstance(heap, other, "DiffScalarFieldAlgebra")
    THEN IF hasattr(heap, self, "_domain") /\ hasattr(heap, other, "_domain")
         THEN Consulted(Return(/\ heap[self]._domain # heap[other]._domain
                               /\ is_subset(heap[self]._domain, heap[other]._domain), heap))
         ELSE Raise("AttributeError", heap)
    ELSE Return(FALSE, heap)

_coerce_map_from_(heap, self, other) ==
    IF other = SR
    THEN Return(TRUE, heap)
    ELSE IF isinstance(heap, other, "DiffScalarFieldAlgebra")
    THEN IF hasattr(heap, self, "_domain") /\ hasattr(heap, other, "_domain")
         THEN Consulted(Return(is_subset(heap[self]._domain, heap[other]._domain), heap))
         ELSE Raise("AttributeError", heap)
    ELSE Return(FALSE, heap)

\* faulty variant: the second half of the literal left out
repr_without_the(heap, self) ==
    Return("Algebra of differentiable scalar fields on " \o
           domain_str(heap[self]._domain), heap)

_repr_(heap, self) ==
    Return("Algebra of differentiable scalar fields on " \o
           "the " \o domain_str(heap[self]._domain), heap)

\* faulty variant: the degree always rendered by its own string form
latex_plain_degree(heap, self) ==
    LET degree == diff_degree(heap[self]._domain)
        latex_degree == degree_str(degree)
    IN  Return("C^{" \o latex_degree \o "}\\left(" \o domain_latex(heap[self]._domain) \o
               "\\right)", heap)

_latex_(heap, self) ==
    LET degree == diff_degree(heap[self]._domain)
        latex_degree == IF degree = infinity THEN "\\infty" ELSE degree_str(degree)
    IN  Return("C^{" \o latex_degree \o "}\\left(" \o domain_latex(heap[self]._domain) \o
               "\\right)", heap)

\* faulty variant: the base class's reduction, naming the generic class
reduce_as_base_class(heap, self) ==
    Return(<<"ScalarFieldAlgebra", <<heap[self]._domain>>>>, heap)

__reduce__(heap, self) ==
    Return(<<"DiffScalarFieldAlgebra", <<heap[self]._domain>>>>, heap)

(***************************************************************************)
(* The state machine: construction and calls                                *)
(***************************************************************************)

Call(op, self, other, r) ==
    [op |-> op, self |-> self, other |-> other,
     ret |-> r.ret, exc |-> r.exc, consulted |-> r.consulted]

Init ==
    /\ subsets \in SubsetStructures
    /\ manifold_degree \in Degrees
    /\ objects = InitialObjects
    /\ last = Call("none", NoObject, NoObject, Return(NoneValue, objects))

\* domain.scalar_field_algebra(): DiffScalarFieldAlgebra(domain)
Construct(domain) ==
    /\ Len(objects) < Len(InitialObjects) + MaxAlgebras
    /\ LET r == construct(objects, "DiffScalarFieldAlgebra", <<domain>>)
       IN  /\ objects' = r.heap
           /\ last' = Call("__init__", NoObject, NoObject, r)
    /\ UNCHANGED <<subsets, manifold_degree>>

CoerceMapFrom(self, other) ==
    /\ LET r == _coerce_map_from_(objects, self, other)
       IN  /\ objects' = r.heap
           /\ last' = Call("_coerce_map_from_", self, other, r)
    /\ UNCHANGED <<subsets, manifold_degree>>

Repr(self) ==
    /\ LET r == _repr_(objects, self)
       IN  /\ objects' = r.heap
           /\ last' = Call("_repr_", self, NoObject, r)
    /\ UNCHANGED <<subsets, manifold_degree>>

Latex(self) ==
    /\ LET r == _latex_(objects, self)
       IN  /\ objects' = r.heap
           /\ last' = Call("_latex_", self, NoObject, r)
    /\ UNCHANGED <<subsets, manifold_degree>>

Reduce(self) ==
    /\ LET r == __reduce__(objects, self)
       IN  /\ objects' = r.heap
           /\ last' = Call("__reduce__", self, NoObject, r)
    /\ UNCHANGED <<subsets, manifold_degree>>

\* loads(dumps(self)): __reduce__, then the class it names applied to the
\* arguments it gives
Loads(self) ==
    /\ Len(objects) < Len(InitialObjects) + MaxAlgebras
    /\ LET p == __reduce__(objects, self)
           r == construct(p.heap, p.ret[1], p.ret[2])
       IN  /\ objects' = r.heap
           /\ last' = Call("loads", self, NoObject, r)
    /\ UNCHANGED <<subsets, manifold_degree>>

Next ==
    \/ \E domain \in Domains : Construct(domain)
    \/ \E self \in Algebras(objects) : \E other \in 1..Len(objects) :
           CoerceMapFrom(self, other)
    \/ \E self \in Algebras(objects) : Repr(self)
    \/ \E self \in Algebras(objects) : Latex(self)
    \/ \E self \in Algebras(objects) : Reduce(self)
    \/ \E self \in Algebras(objects) : Loads(self)

Spec == Init /\ [][Next]_vars

(***************************************************************************)
(* Properties                                                               *)
(***************************************************************************)

\* the domain an algebra holds
dom(o) == objects[o]._domain

IsCoerceCall == last.op = "_coerce_map_from_"

\* has_coerce_map_from: the call returns True
Accepts(heap, a, b) ==
    LET r == _coerce_map_from_(heap, a, b) IN r.exc = "" /\ r.ret = TRUE

\* C1, as stated: for domains D1, D2 with D1.is_subset(D2), the algebra on
\* D1 asked about the algebra on D2 answers True, and the algebra on D2
\* asked about the algebra on D1 answers False.
C1_AsStated ==
    (IsCoerceCall /\ last.other \in Algebras(objects)) =>
        /\ is_subset(dom(last.self), dom(last.other)) =>
               (last.exc = "" /\ last.ret = TRUE)
        /\ is_subset(dom(last.other), dom(last.self)) =>
               (last.exc = "" /\ last.ret = FALSE)

\* C1, amended: for domains D1, D2 with D1.is_subset(D2), the algebra on D1
\* asked about the algebra on D2 answers True, and the algebra on D2 asked
\* about the algebra on D1 answers False unless D2 is itself a subset of D1
\* (as it is when D1 and D2 are the same domain), in which case it answers
\* True.
C1_SupersetToSubset ==
    (IsCoerceCall /\ last.other \in Algebras(objects)) =>
        /\ is_subset(dom(last.self), dom(last.other)) =>
               (last.exc = "" /\ last.ret = TRUE)
        /\ (/\ is_subset(dom(last.other), dom(last.self))
            /\ ~is_subset(dom(last.self), dom(last.other))) =>
               (last.exc = "" /\ last.ret = FALSE)

\* the algebra on a superset asked about the algebra on a proper subset
C1_Witness ==
    /\ IsCoerceCall
    /\ last.other \in Algebras(objects)
    /\ is_subset(dom(last.other), dom(last.self))
    /\ dom(last.other) # dom(last.self)
    /\ last.exc = ""
    /\ last.ret = FALSE

\* C2: asked about the base ring SR, every algebra answers True, and no
\* domain is asked for is_subset.
C2_BaseRingCoerces ==
    (IsCoerceCall /\ last.other = SR) =>
        (last.exc = "" /\ last.ret = TRUE /\ ~last.consulted)

C2_Witness ==
    /\ IsCoerceCall
    /\ last.other = SR
    /\ dom(last.self) # "M"
    /\ last.exc = ""
    /\ last.ret = TRUE

\* C3: asked about anything that is neither SR nor an instance of
\* DiffScalarFieldAlgebra, every algebra answers False.
C3_UnrelatedIsFalse ==
    (/\ IsCoerceCall
     /\ last.other # SR
     /\ ~isinstance(objects, last.other, "DiffScalarFieldAlgebra")) =>
        (last.exc = "" /\ last.ret = FALSE)

\* the generic scalar field algebra on a superset of the receiver's domain
C3_Witness ==
    /\ IsCoerceCall
    /\ objects[last.other].cls = "ScalarFieldAlgebra_with_category"
    /\ is_subset(dom(last.self), dom(last.other))
    /\ last.exc = ""
    /\ last.ret = FALSE

\* C4: __reduce__ returns the pair (DiffScalarFieldAlgebra, (domain,)), and
\* the class applied to the arguments gives a new algebra of this class
\* holding the same domain.
C4_ReduceRoundTrip ==
    /\ last.op = "__reduce__" =>
           /\ last.exc = ""
           /\ last.ret = <<"DiffScalarFieldAlgebra", <<dom(last.self)>>>>
    /\ last.op = "loads" =>
           /\ last.exc = ""
           /\ last.ret \in Algebras(objects) \ {last.self}
           /\ dom(last.ret) = dom(last.self)

C4_Witness ==
    /\ last.op = "loads"
    /\ last.exc = ""
    /\ last.ret \in Algebras(objects) \ {last.self}
    /\ dom(last.ret) = "U"
    /\ dom(last.self) = "U"

\* the degree as the LaTeX label shows it
LatexDegree(d) == IF d.inf THEN "\\infty" ELSE ToString(d.n)

\* C5: _latex_ returns C^{k}\left(L\right), L the domain's LaTeX and k
\* \infty for the infinite degree, the number's digits otherwise.
C5_LatexLabel ==
    last.op = "_latex_" =>
        /\ last.exc = ""
        /\ last.ret = "C^{" \o LatexDegree(diff_degree(dom(last.self))) \o
                      "}\\left(" \o domain_latex(dom(last.self)) \o "\\right)"

C5_Witness ==
    /\ last.op = "_latex_"
    /\ diff_degree(dom(last.self)) = infinity
    /\ last.ret = "C^{\\infty}\\left(M\\right)"

\* C6: _repr_ returns "Algebra of differentiable scalar fields on the "
\* followed by str(domain).
C6_ReprLabel ==
    last.op = "_repr_" =>
        /\ last.exc = ""
        /\ last.ret = "Algebra of differentiable scalar fields on the " \o
                      domain_str(dom(last.self))

C6_Witness ==
    /\ last.op = "_repr_"
    /\ last.ret = "Algebra of differentiable scalar fields on the 2-dimensional differentiable manifold M"

\* C7: _coerce_map_from_ never raises: whatever it is asked about, it
\* returns True or False.
C7_NeverRaises ==
    IsCoerceCall => (last.exc = "" /\ last.ret \in BOOLEAN)

\* asked about an object that has no _domain
C7_Witness ==
    /\ IsCoerceCall
    /\ ~hasattr(objects, last.other, "_domain")
    /\ last.other # SR
    /\ last.exc = ""

\* C8: a _coerce_map_from_ call changes no object and no domain, and the
\* same call made again returns the same answer.
C8_CoercePure ==
    [][(last'.op = "_coerce_map_from_") =>
          /\ objects' = objects
          /\ subsets' = subsets
          /\ manifold_degree' = manifold_degree
          /\ LET again == _coerce_map_from_(objects', last'.self, last'.other)
             IN  again.exc = last'.exc /\ again.ret = last'.ret]_vars

\* a call that asked the domains and was answered False
C8_Witness ==
    /\ IsCoerceCall
    /\ last.consulted
    /\ last.exc = ""
    /\ last.ret = FALSE

\* the outcome of the operation named op, on the given receiver and argument
Outcome(heap, op, self, other) ==
    CASE op = "_coerce_map_from_" -> _coerce_map_from_(heap, self, other)
      [] op = "_repr_" -> _repr_(heap, self)
      [] op = "_latex_" -> _latex_(heap, self)
      [] op = "__reduce__" -> __reduce__(heap, self)

SameOutcome(r, call) == r.exc = call.exc /\ r.ret = call.ret

\* the call just made gives the same result on any algebra that holds the
\* receiver's domain, and with any algebra that holds the argument's domain
\* as argument
DomainDecides(heap, call) ==
    call.op \in {"_coerce_map_from_", "_repr_", "_latex_", "__reduce__"} =>
        LET algebras == Algebras(heap)
            twins(o) == {b \in algebras \ {o} : heap[b]._domain = heap[o]._domain}
        IN  /\ \A b \in twins(call.self) :
                   SameOutcome(Outcome(heap, call.op, b, call.other), call)
            /\ (call.op = "_coerce_map_from_" /\ call.other \in algebras) =>
                   \A b \in twins(call.other) :
                       SameOutcome(Outcome(heap, call.op, call.self, b), call)

\* C9: no call changes an object that exists, so an algebra keeps the domain
\* it was constructed on, and two algebras on the same domain give the same
\* results for every operation, as receiver and as argument.
C9_DeterminedByDomain ==
    [][/\ Len(objects') >= Len(objects)
       /\ SubSeq(objects', 1, Len(objects)) = objects
       /\ DomainDecides(objects', last')]_vars

\* two algebras on the same domain, one of them just asked about the other
C9_Witness ==
    /\ IsCoerceCall
    /\ last.other \in Algebras(objects)
    /\ last.other # last.self
    /\ dom(last.other) = dom(last.self)

\* C10: when is_subset is reflexive and transitive, every algebra accepts
\* coercion from an algebra on its own domain, and acceptance is
\* transitive.
C10_Preorder ==
    (IsReflexive(subsets) /\ IsTransitive(subsets)) =>
        /\ \A a, b \in Algebras(objects) :
               dom(a) = dom(b) => Accepts(objects, a, b)
        /\ \A a, b, c \in Algebras(objects) :
               (Accepts(objects, a, b) /\ Accepts(objects, b, c)) =>
                   Accepts(objects, a, c)

\* three algebras on three different domains, in a chain
C10_Witness ==
    \E a, b, c \in Algebras(objects) :
        /\ dom(a) # dom(b) /\ dom(b) # dom(c) /\ dom(a) # dom(c)
        /\ Accepts(objects, a, b)
        /\ Accepts(objects, b, c)
        /\ Accepts(objects, a, c)

====
